---- MODULE Spec2Model ----
(***************************************************************************)
(* State-machine model of apod_desktop.py: the APOD image cache            *)
(* (directory ImageCacheDir, SQLite table image_data in NASA.db) and the   *)
(* script's main flow                                                      *)
(*   get_apod_date -> init_apod_cache -> add_apod_to_cache                 *)
(*                 -> get_apod_info -> set_desktop_background_image.       *)
(*                                                                         *)
(* Text (titles, URLs, paths, hex digests) is a sequence of one-character  *)
(* strings; image bytes are a sequence of integers; a date is a tuple      *)
(* <<year, month, day>>.                                                   *)
(***************************************************************************)
EXTENDS Integers, Sequences, FiniteSets, TLC

(***************************************************************************)
(* Bounds of the model.                                                    *)
(***************************************************************************)
\* No more than MaxRecords rows are inserted into image_data.
MaxRecords == 3

\* Longest title given to determine_apod_file_path on its own.
MaxTitleLen == 3

\* Script runs that may share the cache; Spec runs them one after another.
Procs == {1, 2}

(***************************************************************************)
(* Characters and the str methods the script uses.                         *)
(***************************************************************************)
LowerLetters == <<"a","b","c","d","e","f","g","h","i","j","k","l","m",
                  "n","o","p","q","r","s","t","u","v","w","x","y","z">>

UpperLetters == <<"A","B","C","D","E","F","G","H","I","J","K","L","M",
                  "N","O","P","Q","R","S","T","U","V","W","X","Y","Z">>

Digits == {"0","1","2","3","4","5","6","7","8","9"}

\* str.strip() with no argument trims every whitespace character.
Whitespace == {" ", "\t", "\n"}

Range(s) == {s[i] : i \in 1..Len(s)}

\* The character class A-Za-z0-9_ of the regular expression at line 132.
WordChars == Range(LowerLetters) \cup Range(UpperLetters) \cup Digits \cup {"_"}

UpperChar(c) ==
    IF \E i \in 1..Len(LowerLetters) : LowerLetters[i] = c
    THEN UpperLetters[CHOOSE i \in 1..Len(LowerLetters) : LowerLetters[i] = c]
    ELSE c

\* str.upper()
upper(s) == [i \in 1..Len(s) |-> UpperChar(s[i])]

\* str.lstrip(): drop leading whitespace only.
lstrip(s) ==
    LET keep == {i \in 1..Len(s) : s[i] \notin Whitespace}
    IN  IF keep = {} THEN <<>>
        ELSE SubSeq(s, CHOOSE i \in keep : \A j \in keep : i <= j, Len(s))

\* str.strip(): drop leading and trailing whitespace.
strip(s) ==
    LET keep == {i \in 1..Len(s) : s[i] \notin Whitespace}
    IN  IF keep = {} THEN <<>>
        ELSE LET lo == CHOOSE i \in keep : \A j \in keep : i <= j
                 hi == CHOOSE i \in keep : \A j \in keep : j <= i
             IN  SubSeq(s, lo, hi)

\* str.replace(old, new) for one-character old and new.
replace(s, old, new) == [i \in 1..Len(s) |-> IF s[i] = old THEN new ELSE s[i]]

\* re.sub('[^A-Za-z0-9_]+', '', s): delete every run of non-word characters.
re_sub_nonword(s) == SelectSeq(s, LAMBDA c : c \in WordChars)

\* s.split(".")[-1]: what follows the last "." (all of s when it has none).
split_last(s) ==
    LET dots == {i \in 1..Len(s) : s[i] = "."}
    IN  IF dots = {} THEN s
        ELSE LET last == CHOOSE i \in dots : \A j \in dots : j <= i
             IN  SubSeq(s, last + 1, Len(s))

\* '.'.join((a, b))
join_dot(a, b) == a \o <<".">> \o b

(***************************************************************************)
(* Paths.                                                                  *)
(***************************************************************************)
\* image_cache_dir: an absolute directory path (script_dir/ImageCacheDir).
image_cache_dir == <<"/", "s", "/", "I">>

\* os.path.join(a, b): b alone when b is absolute, else a, a separator, b.
os_path_join(a, b) ==
    IF Len(b) > 0 /\ b[1] = "/" THEN b
    ELSE IF Len(a) > 0 /\ a[Len(a)] = "/" THEN a \o b
    ELSE a \o <<"/">> \o b

\* The file name alone, not joined to image_cache_dir.
determine_apod_file_path_no_dir(image_title, image_url) ==
    join_dot(re_sub_nonword(replace(strip(image_title), " ", "_")),
             split_last(image_url))

determine_apod_file_path(image_title, image_url) ==
    LET file_ext  == split_last(image_url)
        file_name == re_sub_nonword(replace(strip(image_title), " ", "_"))
    IN  os_path_join(image_cache_dir, join_dot(file_name, file_ext))

\* The components of a path, split at "/".
RECURSIVE Components(_)
Components(p) ==
    IF p = <<>> THEN << <<>> >>
    ELSE LET rest == Components(Tail(p))
         IN  IF Head(p) = "/" THEN << <<>> >> \o rest
             ELSE << <<Head(p)>> \o Head(rest) >> \o Tail(rest)

IsPrefix(a, b) == Len(a) <= Len(b) /\ SubSeq(b, 1, Len(a)) = a

\* p names something strictly inside directory d, with no ".." step out of it.
InsideDir(p, d) ==
    /\ IsPrefix(d \o <<"/">>, p)
    /\ Len(p) > Len(d) + 1
    /\ \A i \in 1..Len(Components(p)) : Components(p)[i] # <<".", ".">>

(***************************************************************************)
(* Dates: datetime.date as <<year, month, day>>.                           *)
(***************************************************************************)
IsLeap(y) == (y % 4 = 0 /\ y % 100 # 0) \/ y % 400 = 0

DaysInMonth(y, m) ==
    IF m = 2 THEN (IF IsLeap(y) THEN 29 ELSE 28)
    ELSE IF m \in {4, 6, 9, 11} THEN 30 ELSE 31

\* date.fromisoformat(s) raises ValueError unless s names a calendar day.
IsIsoDate(s) ==
    /\ s[1] \in 1..9999
    /\ s[2] \in 1..12
    /\ s[3] \in 1..DaysInMonth(s[1], s[2])

\* date.__lt__: a < b
DateLT(a, b) ==
    \/ a[1] < b[1]
    \/ a[1] = b[1] /\ a[2] < b[2]
    \/ a[1] = b[1] /\ a[2] = b[2] /\ a[3] < b[3]

\* First APOD (line 43).
MIN_APOD_DATE == <<1999, 7, 14>>

NoDate == <<>>

\* get_apod_date with the test of line 47 written apod_date >= date.today().
get_apod_date_rejects_today(args, now) ==
    IF Len(args) >= 1
    THEN IF ~IsIsoDate(args[1])
         THEN [err |-> "InvalidFormat", date |-> NoDate]
         ELSE IF DateLT(args[1], MIN_APOD_DATE)
         THEN [err |-> "DateTooFarInPast", date |-> NoDate]
         ELSE IF ~DateLT(args[1], now)
         THEN [err |-> "DateInFuture", date |-> NoDate]
         ELSE [err |-> "none", date |-> args[1]]
    ELSE [err |-> "none", date |-> now]

\* get_apod_date with sys.argv[1:] = args when date.today() = now: the date
\* returned, or the error that ends the script through sys.exit.
get_apod_date(args, now) ==
    IF Len(args) >= 1
    THEN IF ~IsIsoDate(args[1])
         THEN [err |-> "InvalidFormat", date |-> NoDate]
         ELSE IF DateLT(args[1], MIN_APOD_DATE)
         THEN [err |-> "DateTooFarInPast", date |-> NoDate]
         ELSE IF DateLT(now, args[1])
         THEN [err |-> "DateInFuture", date |-> NoDate]
         ELSE [err |-> "none", date |-> args[1]]
    ELSE [err |-> "none", date |-> now]

\* The three sys.exit paths of get_apod_date.
InvalidDate == {"InvalidFormat", "DateTooFarInPast", "DateInFuture"}

(***************************************************************************)
(* Content hashing.                                                        *)
(***************************************************************************)
\* hashlib.sha256(data).hexdigest(): lower-case hex.  The model keeps the
\* first four digits of the real digests of the contents it draws from.
sha256_hexdigest(data) ==
    CASE data = <<65, 66, 67>> -> <<"b", "5", "d", "4">>
      [] data = <<>>           -> <<"e", "3", "b", "0">>
      [] data = <<1>>          -> <<"4", "b", "f", "5">>
      [] OTHER                 -> <<"3", "8", "1", "6">>

(***************************************************************************)
(* Inputs the environment supplies.                                        *)
(***************************************************************************)
\* sys.argv[1:]: no argument, or one date string.
Argvs ==
    { <<>> } \cup
    { <<d>> : d \in { <<1999, 7, 13>>, <<1999, 7, 14>>, <<1999, 7, 15>>,
                      <<1998, 12, 31>>, <<2000, 1, 1>>,
                      <<1999, 13, 1>>, <<1999, 6, 31>> } }

\* date.today()
Todays == { <<1999, 7, 14>>, <<1999, 7, 15>> }

\* apod_info['title']
Titles == { <<"A", " ", "b">>, <<"A", "_", "b", "!">>, <<" ", "A", "\t", "b">> }

\* apod_info['explanation']
Explanations == { <<"e">> }

\* get_apod_image_url(apod_info)
Urls == { <<"x", "/", "a", ".", "j">>, <<"x", ".", "y", "/", "b", ".", "p">> }

\* requests.get(apod_url).content
Contents == { <<65, 66, 67>>, <<>> }

(***************************************************************************)
(* State.                                                                  *)
(***************************************************************************)
VARIABLES
    dir_exists,        \* os.path.isdir(image_cache_dir)
    tbl_exists,        \* table image_data exists in NASA.db
    image_data,        \* rows of table image_data, in rowid order
    files,             \* image files on disk: a set of [path, data]
    pc,                \* where each run of the script stands
    argv,              \* sys.argv[1:] of the run
    today,             \* date.today() of the run
    apod_date,         \* main: apod_date
    apod_title,        \* add_apod_to_cache: apod_title
    apod_explanation,  \* add_apod_to_cache: apod_info['explanation']
    apod_url,          \* add_apod_to_cache: apod_url
    apod_image_data,   \* add_apod_to_cache: apod_image_data
    apod_sha256,       \* add_apod_to_cache: apod_sha256
    apod_path,         \* add_apod_to_cache: apod_path
    apod_id,           \* main: apod_id
    apod_info,         \* main: apod_info, <<>> until get_apod_info returns
    err,               \* the error that ended the run, "none" otherwise
    db_cxn,            \* the functions whose sqlite3 connection is still open
    io,                \* history: what the run has done so far, in order
    last_resolve       \* history: content and result of the last completed
                       \* pass through the hash/find/save/insert part

shared == <<dir_exists, tbl_exists, image_data, files>>

locals == <<argv, today, apod_date, apod_title, apod_explanation, apod_url,
            apod_image_data, apod_sha256, apod_path, apod_id, apod_info>>

vars == <<shared, pc, locals, err, db_cxn, io, last_resolve>>

NoText == <<>>

NoResolve == [called |-> FALSE, data |-> <<>>, id |-> 0]

(***************************************************************************)
(* The table image_data (lines 60-69) and its queries.                     *)
(***************************************************************************)
\* The table is created anew, its rows lost.
create_images_tbl_fresh(tbl) == <<>>

\* CREATE TABLE IF NOT EXISTS image_data: the rows of a table that exists
\* stay as they are (tbl is empty when there was none).
create_images_tbl(tbl) == tbl

Ids(tbl) == {tbl[i].id : i \in 1..Len(tbl)}

Max(S) == CHOOSE x \in S : \A y \in S : y <= x

\* Row ids counted from 0.
lastrowid_from_count(tbl) == Len(tbl)

\* The rowid SQLite gives a row inserted with no id into an INTEGER
\* PRIMARY KEY table: one more than the largest rowid, 1 in an empty table.
lastrowid(tbl) == IF Ids(tbl) = {} THEN 1 ELSE Max(Ids(tbl)) + 1

\* The digest is stored as given, without .upper().
add_apod_to_db_as_given(tbl, title, explanation, file_path, sha256) ==
    Append(tbl, [id          |-> lastrowid(tbl),
                 title       |-> title,
                 explanation |-> explanation,
                 file_path   |-> file_path,
                 sha256      |-> sha256])

\* INSERT OR REPLACE with the id of the newest row: that row is overwritten.
add_apod_to_db_replace(tbl, title, explanation, file_path, sha256) ==
    IF Len(tbl) = 0
    THEN << [id |-> 1, title |-> title, explanation |-> explanation,
             file_path |-> file_path, sha256 |-> upper(sha256)] >>
    ELSE [tbl EXCEPT ![Len(tbl)] =
             [id |-> @.id, title |-> title, explanation |-> explanation,
              file_path |-> file_path, sha256 |-> upper(sha256)]]

\* The table refuses a second row with a file path it holds.
add_apod_to_db_unique_path(tbl, title, explanation, file_path, sha256) ==
    IF \E i \in 1..Len(tbl) : tbl[i].file_path = file_path
    THEN tbl
    ELSE Append(tbl, [id          |-> lastrowid(tbl),
                      title       |-> title,
                      explanation |-> explanation,
                      file_path   |-> file_path,
                      sha256      |-> upper(sha256)])

\* The table refuses a second row with a digest it holds (a UNIQUE column).
add_apod_to_db_unique(tbl, title, explanation, file_path, sha256) ==
    IF \E i \in 1..Len(tbl) : tbl[i].sha256 = upper(sha256)
    THEN tbl
    ELSE Append(tbl, [id          |-> lastrowid(tbl),
                      title       |-> title,
                      explanation |-> explanation,
                      file_path   |-> file_path,
                      sha256      |-> upper(sha256)])

\* add_apod_to_db when execute and commit succeed: the table afterwards.
add_apod_to_db(tbl, title, explanation, file_path, sha256) ==
    Append(tbl, [id          |-> lastrowid(tbl),
                 title       |-> title,
                 explanation |-> explanation,
                 file_path   |-> file_path,
                 sha256      |-> upper(sha256)])

\* A failed insert that leaves its row behind.
add_apod_to_db_partial(tbl, title, explanation, file_path, sha256) ==
    add_apod_to_db(tbl, title, explanation, file_path, sha256)

\* add_apod_to_db when connect, execute or commit raises: the except branch
\* returns 0 and the connection is dropped uncommitted, so the row is not
\* in the table.
add_apod_to_db_failed(tbl, title, explanation, file_path, sha256) == tbl

\* The digest is compared as given, without .upper().
get_apod_id_from_db_as_given(tbl, image_sha256) ==
    LET hits == {i \in 1..Len(tbl) : tbl[i].sha256 = image_sha256}
    IN  IF hits = {} THEN 0
        ELSE tbl[CHOOSE i \in hits : \A j \in hits : i <= j].id

\* The WHERE clause is lost: the first row of the table is taken.
get_apod_id_from_db_first_row(tbl, image_sha256) ==
    IF Len(tbl) = 0 THEN 0 ELSE tbl[1].id

\* get_apod_id_from_db: the id of the first row with the digest, else 0.
get_apod_id_from_db(tbl, image_sha256) ==
    LET hits == {i \in 1..Len(tbl) : tbl[i].sha256 = upper(image_sha256)}
    IN  IF hits = {} THEN 0
        ELSE tbl[CHOOSE i \in hits : \A j \in hits : i <= j].id

\* The WHERE clause is lost: every row answers the query.
RowsWithId_any(tbl, image_id) == tbl

\* get_apod_info's query: the rows with the id (fetchone takes the first).
RowsWithId(tbl, image_id) == SelectSeq(tbl, LAMBDA r : r.id = image_id)

(***************************************************************************)
(* The cache directory.                                                    *)
(***************************************************************************)
\* save_image_file when the write succeeds: path holds data afterwards.
WriteFile(fs, path, data) ==
    {f \in fs : f.path # path} \cup {[path |-> path, data |-> data]}

FileExists(fs, path) == \E f \in fs : f.path = path

(***************************************************************************)
(* Initial state: no cache directory, no table, no run in progress.        *)
(***************************************************************************)
Blank(x) == [p \in Procs |-> x]

InitLocals ==
    /\ argv = Blank(<<>>)
    /\ today = Blank(NoDate)
    /\ apod_date = Blank(NoDate)
    /\ apod_title = Blank(NoText)
    /\ apod_explanation = Blank(NoText)
    /\ apod_url = Blank(NoText)
    /\ apod_image_data = Blank(<<>>)
    /\ apod_sha256 = Blank(NoText)
    /\ apod_path = Blank(NoText)
    /\ apod_id = Blank(0)
    /\ apod_info = Blank(<<>>)
    /\ err = Blank("none")
    /\ db_cxn = Blank({})
    /\ io = Blank(<<>>)

InitCache ==
    /\ dir_exists = FALSE
    /\ tbl_exists = FALSE
    /\ image_data = <<>>
    /\ files = {}
    /\ last_resolve = NoResolve

\* One script at a time: run 1 is started, run 2 is never used.
Init ==
    /\ InitCache
    /\ InitLocals
    /\ pc = [p \in Procs |-> IF p = 1 THEN "start" ELSE "off"]

(***************************************************************************)
(* main, line 28: apod_date = get_apod_date()                              *)
(***************************************************************************)
\* The error message is printed but the script is not ended.
GetApodDate_no_exit(p) ==
    /\ pc[p] = "start"
    /\ UNCHANGED db_cxn
    /\ \E a \in Argvs, t \in Todays :
         LET r == get_apod_date(a, t)
         IN  /\ argv' = [argv EXCEPT ![p] = a]
             /\ today' = [today EXCEPT ![p] = t]
             /\ err' = [err EXCEPT ![p] = r.err]
             /\ apod_date' = [apod_date EXCEPT ![p] =
                                IF r.err = "none" THEN r.date ELSE a[1]]
             /\ pc' = [pc EXCEPT ![p] = "init"]
    /\ UNCHANGED <<shared, apod_title, apod_explanation, apod_url,
                   apod_image_data, apod_sha256, apod_path, apod_id,
                   apod_info, io, last_resolve>>

GetApodDate(p) ==
    /\ pc[p] = "start"
    /\ UNCHANGED db_cxn
    /\ \E a \in Argvs, t \in Todays :
         LET r == get_apod_date(a, t)
         IN  /\ argv' = [argv EXCEPT ![p] = a]
             /\ today' = [today EXCEPT ![p] = t]
             /\ err' = [err EXCEPT ![p] = r.err]
             /\ apod_date' = [apod_date EXCEPT ![p] = r.date]
             /\ pc' = [pc EXCEPT ![p] =
                         IF r.err = "none" THEN "init" ELSE "aborted"]
    /\ UNCHANGED <<shared, apod_title, apod_explanation, apod_url,
                   apod_image_data, apod_sha256, apod_path, apod_id,
                   apod_info, io, last_resolve>>

(***************************************************************************)
(* main, line 29: init_apod_cache()                                        *)
(***************************************************************************)
InitApodCache(p) ==
    /\ pc[p] = "init"
    /\ UNCHANGED db_cxn
    /\ dir_exists' = TRUE
    /\ tbl_exists' = TRUE
    /\ image_data' = create_images_tbl(image_data)
    /\ io' = [io EXCEPT ![p] = Append(@, "init")]
    /\ pc' = [pc EXCEPT ![p] = "fetch"]
    \* the arguments are not read again
    /\ argv' = [argv EXCEPT ![p] = <<>>]
    /\ today' = [today EXCEPT ![p] = NoDate]
    /\ UNCHANGED <<files, apod_date, apod_title, apod_explanation,
                   apod_url, apod_image_data, apod_sha256, apod_path, apod_id,
                   apod_info, err, last_resolve>>

(***************************************************************************)
(* add_apod_to_cache, lines 75-80: the metadata of the date.               *)
(***************************************************************************)
FetchNoData(p) ==
    /\ pc[p] = "fetch"
    /\ UNCHANGED db_cxn
    /\ io' = [io EXCEPT ![p] = Append(@, "fetch")]
    /\ apod_id' = [apod_id EXCEPT ![p] = 0]
    /\ apod_date' = [apod_date EXCEPT ![p] = NoDate]
    /\ pc' = [pc EXCEPT ![p] = "get_info"]
    /\ UNCHANGED <<shared, argv, today, apod_title, apod_explanation, apod_url,
                   apod_image_data, apod_sha256, apod_path, apod_info, err,
                   last_resolve>>

FetchInfo(p) ==
    /\ pc[p] = "fetch"
    /\ UNCHANGED db_cxn
    /\ io' = [io EXCEPT ![p] = Append(@, "fetch")]
    /\ \E t \in Titles, e \in Explanations, u \in Urls :
         /\ apod_title' = [apod_title EXCEPT ![p] = t]
         /\ apod_explanation' = [apod_explanation EXCEPT ![p] = e]
         /\ apod_url' = [apod_url EXCEPT ![p] = u]
    /\ apod_date' = [apod_date EXCEPT ![p] = NoDate]
    /\ pc' = [pc EXCEPT ![p] = "download"]
    /\ UNCHANGED <<shared, argv, today, apod_image_data, apod_sha256,
                   apod_path, apod_id, apod_info, err, last_resolve>>

Fetch(p) == FetchNoData(p) \/ FetchInfo(p)

(***************************************************************************)
(* add_apod_to_cache, lines 81-83: the image bytes and their digest.       *)
(***************************************************************************)
DownloadOk(p) ==
    /\ pc[p] = "download"
    /\ UNCHANGED db_cxn
    /\ io' = [io EXCEPT ![p] = Append(@, "download")]
    /\ \E d \in Contents :
         /\ apod_image_data' = [apod_image_data EXCEPT ![p] = d]
         /\ apod_sha256' = [apod_sha256 EXCEPT ![p] = sha256_hexdigest(d)]
    /\ pc' = [pc EXCEPT ![p] = "find"]
    /\ UNCHANGED <<shared, argv, today, apod_date, apod_title,
                   apod_explanation, apod_url, apod_path, apod_id, apod_info,
                   err, last_resolve>>

\* The exception of requests.get is swallowed and the run goes on with no
\* bytes.
DownloadFailed_swallowed(p) ==
    /\ pc[p] = "download"
    /\ UNCHANGED db_cxn
    /\ io' = [io EXCEPT ![p] = Append(@, "download")]
    /\ err' = [err EXCEPT ![p] = "RequestException"]
    /\ apod_image_data' = [apod_image_data EXCEPT ![p] = <<>>]
    /\ apod_sha256' = [apod_sha256 EXCEPT ![p] = sha256_hexdigest(<<>>)]
    /\ pc' = [pc EXCEPT ![p] = "find"]
    /\ UNCHANGED <<shared, argv, today, apod_date, apod_title,
                   apod_explanation, apod_url, apod_path, apod_id, apod_info,
                   last_resolve>>

\* requests.get raises: nothing catches it and the script ends.
DownloadFailed(p) ==
    /\ pc[p] = "download"
    /\ UNCHANGED db_cxn
    /\ io' = [io EXCEPT ![p] = Append(@, "download")]
    /\ err' = [err EXCEPT ![p] = "RequestException"]
    /\ pc' = [pc EXCEPT ![p] = "crashed"]
    /\ UNCHANGED <<shared, locals, last_resolve>>

Download(p) == DownloadOk(p) \/ DownloadFailed(p)

(***************************************************************************)
(* add_apod_to_cache, lines 84-85: is the image already in the cache?      *)
(***************************************************************************)
Resolved(p, id) == [called |-> TRUE, data |-> apod_image_data[p], id |-> id]

\* The test of line 85 is lost: a cached image is saved and inserted again.
FindHit_falls_through(p) ==
    /\ pc' = [pc EXCEPT ![p] = "save"]
    /\ UNCHANGED <<apod_id, last_resolve>>

\* line 85, apod_id != 0: return apod_id
FindHit(p) ==
    /\ apod_id' = [apod_id EXCEPT ![p] =
                     get_apod_id_from_db(image_data, apod_sha256[p])]
    /\ last_resolve' = Resolved(p, apod_id'[p])
    /\ pc' = [pc EXCEPT ![p] = "get_info"]

\* line 85, apod_id = 0: go on to save the image
FindMiss(p) ==
    /\ pc' = [pc EXCEPT ![p] = "save"]
    /\ UNCHANGED <<apod_id, last_resolve>>

Find(p) ==
    /\ pc[p] = "find"
    /\ UNCHANGED db_cxn
    /\ io' = [io EXCEPT ![p] = Append(@, "find")]
    /\ IF ~tbl_exists
       THEN \* sqlite3.OperationalError: no such table
            /\ err' = [err EXCEPT ![p] = "OperationalError"]
            /\ pc' = [pc EXCEPT ![p] = "crashed"]
            /\ UNCHANGED <<apod_id, last_resolve>>
       ELSE /\ IF get_apod_id_from_db(image_data, apod_sha256[p]) # 0
               THEN FindHit(p)
               ELSE FindMiss(p)
            /\ UNCHANGED err
    /\ UNCHANGED <<shared, argv, today, apod_date, apod_title,
                   apod_explanation, apod_url, apod_image_data, apod_sha256,
                   apod_path, apod_info>>

(***************************************************************************)
(* add_apod_to_cache, lines 86-88: save the image file.                    *)
(***************************************************************************)
SaveOk(p) ==
    /\ pc[p] = "save"
    /\ UNCHANGED db_cxn
    /\ LET path == determine_apod_file_path(apod_title[p], apod_url[p])
       IN  /\ apod_path' = [apod_path EXCEPT ![p] = path]
           /\ files' = WriteFile(files, path, apod_image_data[p])
    /\ io' = [io EXCEPT ![p] = Append(@, "write_ok")]
    /\ pc' = [pc EXCEPT ![p] = "insert"]
    /\ UNCHANGED <<dir_exists, tbl_exists, image_data, argv, today, apod_date,
                   apod_title, apod_explanation, apod_url, apod_image_data,
                   apod_sha256, apod_id, apod_info, err, last_resolve>>

\* The result of save_image_file is ignored: the insert follows anyway.
SaveFailed_falls_through(p) ==
    /\ pc[p] = "save"
    /\ UNCHANGED db_cxn
    /\ apod_path' = [apod_path EXCEPT ![p] =
                       determine_apod_file_path(apod_title[p], apod_url[p])]
    /\ io' = [io EXCEPT ![p] = Append(@, "write_failed")]
    /\ pc' = [pc EXCEPT ![p] = "insert"]
    /\ UNCHANGED <<shared, argv, today, apod_date, apod_title,
                   apod_explanation, apod_url, apod_image_data, apod_sha256,
                   apod_id, apod_info, err, last_resolve>>

\* line 88: save_image_file returned false, return 0
SaveFailed(p) ==
    /\ pc[p] = "save"
    /\ UNCHANGED db_cxn
    /\ apod_path' = [apod_path EXCEPT ![p] =
                       determine_apod_file_path(apod_title[p], apod_url[p])]
    /\ io' = [io EXCEPT ![p] = Append(@, "write_failed")]
    /\ apod_id' = [apod_id EXCEPT ![p] = 0]
    /\ last_resolve' = Resolved(p, 0)
    /\ pc' = [pc EXCEPT ![p] = "get_info"]
    /\ UNCHANGED <<shared, argv, today, apod_date, apod_title,
                   apod_explanation, apod_url, apod_image_data, apod_sha256,
                   apod_info, err>>

Save(p) == SaveOk(p) \/ SaveFailed(p)

(***************************************************************************)
(* add_apod_to_cache, lines 89-91: insert the row.                         *)
(***************************************************************************)
InsertOk(p) ==
    /\ pc[p] = "insert"
    /\ UNCHANGED db_cxn
    /\ Len(image_data) < MaxRecords
    /\ image_data' = add_apod_to_db(image_data, apod_title[p],
                        apod_explanation[p], apod_path[p], apod_sha256[p])
    /\ apod_id' = [apod_id EXCEPT ![p] = image_data'[Len(image_data')].id]
    /\ last_resolve' = Resolved(p, apod_id'[p])
    /\ io' = [io EXCEPT ![p] = Append(@, "insert_ok")]
    /\ pc' = [pc EXCEPT ![p] = "get_info"]
    /\ UNCHANGED <<dir_exists, tbl_exists, files, argv, today, apod_date,
                   apod_title, apod_explanation, apod_url, apod_image_data,
                   apod_sha256, apod_path, apod_info, err>>

InsertFailed(p) ==
    /\ pc[p] = "insert"
    \* the except branch closes nothing: a connection that execute or commit
    \* failed on stays open until the garbage collector finds it
    /\ \E leaked \in SUBSET {"add_apod_to_db"} :
           db_cxn' = [db_cxn EXCEPT ![p] = @ \cup leaked]
    /\ image_data' = add_apod_to_db_failed(image_data, apod_title[p],
                        apod_explanation[p], apod_path[p], apod_sha256[p])
    /\ apod_id' = [apod_id EXCEPT ![p] = 0]
    /\ last_resolve' = Resolved(p, 0)
    /\ io' = [io EXCEPT ![p] = Append(@, "insert_failed")]
    /\ pc' = [pc EXCEPT ![p] = "get_info"]
    /\ UNCHANGED <<dir_exists, tbl_exists, files, argv, today, apod_date,
                   apod_title, apod_explanation, apod_url, apod_image_data,
                   apod_sha256, apod_path, apod_info, err>>

Insert(p) == InsertOk(p) \/ InsertFailed(p)

(***************************************************************************)
(* main, line 31: apod_info = get_apod_info(apod_id)                       *)
(***************************************************************************)
GetApodInfo(p) ==
    /\ pc[p] = "get_info"
    /\ UNCHANGED db_cxn
    /\ io' = [io EXCEPT ![p] = Append(@, "get")]
    /\ LET rows == RowsWithId(image_data, apod_id[p])
       IN  IF ~tbl_exists
           THEN \* sqlite3.OperationalError: no such table
                /\ err' = [err EXCEPT ![p] = "OperationalError"]
                /\ pc' = [pc EXCEPT ![p] = "crashed"]
                /\ UNCHANGED apod_info
           ELSE IF rows = <<>>
           THEN \* fetchone() gave None: query_result[0] raises TypeError
                /\ err' = [err EXCEPT ![p] = "TypeError"]
                /\ pc' = [pc EXCEPT ![p] = "crashed"]
                /\ UNCHANGED apod_info
           ELSE /\ apod_info' = [apod_info EXCEPT ![p] =
                       << [title       |-> rows[1].title,
                           explanation |-> rows[1].explanation,
                           file_path   |-> rows[1].file_path] >>]
                /\ pc' = [pc EXCEPT ![p] = "set_bg"]
                /\ UNCHANGED err
    /\ UNCHANGED <<shared, argv, today, apod_date, apod_title,
                   apod_explanation, apod_url, apod_image_data, apod_sha256,
                   apod_path, apod_id, last_resolve>>

(***************************************************************************)
(* main, line 32: set_desktop_background_image(apod_info['file_path'])     *)
(***************************************************************************)
SetBackground(p) ==
    /\ pc[p] = "set_bg"
    /\ UNCHANGED db_cxn
    /\ io' = [io EXCEPT ![p] = Append(@, "set_background")]
    /\ pc' = [pc EXCEPT ![p] = "done"]
    /\ UNCHANGED <<shared, locals, err, last_resolve>>

(***************************************************************************)
(* The functions of the cache called on their own, by a program that       *)
(* imports the module (line 167 keeps main from running then).             *)
(***************************************************************************)
\* init_apod_cache()
CallInitApodCache(p) ==
    /\ pc[p] = "start"
    /\ dir_exists' = TRUE
    /\ tbl_exists' = TRUE
    /\ image_data' = create_images_tbl(image_data)
    /\ io' = [io EXCEPT ![p] = <<"call_init">>]
    /\ pc' = [pc EXCEPT ![p] = "returned"]
    /\ UNCHANGED <<files, locals, err, db_cxn, last_resolve>>

\* get_apod_info(image_id) for any id
CallGetApodInfo(p) ==
    /\ pc[p] = "start"
    /\ io' = [io EXCEPT ![p] = <<"call_get">>]
    /\ \E image_id \in 0..MaxRecords :
         LET rows == RowsWithId(image_data, image_id)
         IN  /\ apod_id' = [apod_id EXCEPT ![p] = image_id]
             /\ IF ~tbl_exists
                THEN \* sqlite3.OperationalError from connect or execute
                     /\ err' = [err EXCEPT ![p] = "OperationalError"]
                     /\ pc' = [pc EXCEPT ![p] = "crashed"]
                     /\ UNCHANGED apod_info
                ELSE IF rows = <<>>
                THEN \* fetchone() gave None: query_result[0] raises TypeError
                     /\ err' = [err EXCEPT ![p] = "TypeError"]
                     /\ pc' = [pc EXCEPT ![p] = "crashed"]
                     /\ UNCHANGED apod_info
                ELSE /\ apod_info' = [apod_info EXCEPT ![p] =
                            << [title       |-> rows[1].title,
                                explanation |-> rows[1].explanation,
                                file_path   |-> rows[1].file_path] >>]
                     /\ pc' = [pc EXCEPT ![p] = "returned"]
                     /\ UNCHANGED err
    /\ UNCHANGED <<shared, argv, today, apod_date, apod_title,
                   apod_explanation, apod_url, apod_image_data, apod_sha256,
                   apod_path, db_cxn, last_resolve>>

\* get_all_apod_titles(): the titles in rowid order, kept in apod_info
CallGetAllApodTitles(p) ==
    /\ pc[p] = "start"
    /\ io' = [io EXCEPT ![p] = <<"call_titles">>]
    /\ IF ~tbl_exists
       THEN /\ err' = [err EXCEPT ![p] = "OperationalError"]
            /\ pc' = [pc EXCEPT ![p] = "crashed"]
            /\ UNCHANGED apod_info
       ELSE /\ apod_info' = [apod_info EXCEPT ![p] =
                   [i \in 1..Len(image_data) |-> image_data[i].title]]
            /\ pc' = [pc EXCEPT ![p] = "returned"]
            /\ UNCHANGED err
    /\ UNCHANGED <<shared, argv, today, apod_date, apod_title,
                   apod_explanation, apod_url, apod_image_data, apod_sha256,
                   apod_path, apod_id, db_cxn, last_resolve>>

(***************************************************************************)
(* The script is run again (lines 167-168) against the same cache.         *)
(***************************************************************************)
Ended(p) == pc[p] \in {"done", "aborted", "crashed", "returned"}

Restart(p) ==
    /\ Ended(p)
    /\ pc' = [pc EXCEPT ![p] = "start"]
    /\ argv' = [argv EXCEPT ![p] = <<>>]
    /\ today' = [today EXCEPT ![p] = NoDate]
    /\ apod_date' = [apod_date EXCEPT ![p] = NoDate]
    /\ apod_title' = [apod_title EXCEPT ![p] = NoText]
    /\ apod_explanation' = [apod_explanation EXCEPT ![p] = NoText]
    /\ apod_url' = [apod_url EXCEPT ![p] = NoText]
    /\ apod_image_data' = [apod_image_data EXCEPT ![p] = <<>>]
    /\ apod_sha256' = [apod_sha256 EXCEPT ![p] = NoText]
    /\ apod_path' = [apod_path EXCEPT ![p] = NoText]
    /\ apod_id' = [apod_id EXCEPT ![p] = 0]
    /\ apod_info' = [apod_info EXCEPT ![p] = <<>>]
    /\ err' = [err EXCEPT ![p] = "none"]
    /\ db_cxn' = [db_cxn EXCEPT ![p] = {}]
    /\ io' = [io EXCEPT ![p] = <<>>]
    /\ UNCHANGED <<shared, last_resolve>>

\* One step of a run of main.
RunStep(p) ==
    \/ GetApodDate(p)
    \/ InitApodCache(p)
    \/ Fetch(p)
    \/ Download(p)
    \/ Find(p)
    \/ Save(p)
    \/ Insert(p)
    \/ GetApodInfo(p)
    \/ SetBackground(p)

Step(p) ==
    \/ RunStep(p)
    \/ CallInitApodCache(p)
    \/ CallGetApodInfo(p)
    \/ CallGetAllApodTitles(p)
    \/ Restart(p)

Next == \E p \in Procs : Step(p)

Spec == Init /\ [][Next]_vars

(***************************************************************************)
(* Two runs of the script at once against one cache: every statement of a  *)
(* run that touches the table or the directory is one step, and the steps  *)
(* of the two runs interleave freely (no lock is taken anywhere).          *)
(***************************************************************************)
InitTwo ==
    /\ InitCache
    /\ InitLocals
    /\ pc = [p \in Procs |-> "start"]

NextTwo == \E p \in Procs : RunStep(p)

SpecTwo == InitTwo /\ [][NextTwo]_vars

(***************************************************************************)
(* determine_apod_file_path on its own, lines 130-135: a call with any     *)
(* title of up to MaxTitleLen characters and any URL; the result is kept   *)
(* in apod_path.                                                           *)
(***************************************************************************)
TitleChars == {"A", "b", " ", "\t", "!", "_"}

TitlesUpTo(n) == UNION {[1..k -> TitleChars] : k \in 0..n}

InitPath ==
    /\ InitCache
    /\ argv = Blank(<<>>)
    /\ today = Blank(NoDate)
    /\ apod_date = Blank(NoDate)
    /\ \E image_title \in TitlesUpTo(MaxTitleLen) :
           apod_title = [p \in Procs |-> IF p = 1 THEN image_title ELSE NoText]
    /\ apod_explanation = Blank(NoText)
    /\ \E image_url \in Urls :
           apod_url = [p \in Procs |-> IF p = 1 THEN image_url ELSE NoText]
    /\ apod_image_data = Blank(<<>>)
    /\ apod_sha256 = Blank(NoText)
    /\ apod_path = Blank(NoText)
    /\ apod_id = Blank(0)
    /\ apod_info = Blank(<<>>)
    /\ err = Blank("none")
    /\ db_cxn = Blank({})
    /\ io = Blank(<<>>)
    /\ pc = [p \in Procs |-> IF p = 1 THEN "call" ELSE "off"]

DetermineApodFilePath(p) ==
    /\ pc[p] = "call"
    /\ apod_path' = [apod_path EXCEPT
                        ![p] = determine_apod_file_path(apod_title[p],
                                                        apod_url[p])]
    /\ pc' = [pc EXCEPT ![p] = "returned"]
    /\ UNCHANGED <<shared, argv, today, apod_date, apod_title,
                   apod_explanation, apod_url, apod_image_data, apod_sha256,
                   apod_id, apod_info, err, db_cxn, io, last_resolve>>

NextPath == \E p \in Procs : DetermineApodFilePath(p)

SpecPath == InitPath /\ [][NextPath]_vars

(***************************************************************************)
(* Vocabulary of the properties.                                           *)
(***************************************************************************)
Last(s) == s[Len(s)]

\* Run p has done e at some point.
Did(p, e) == e \in Range(io[p])

\* The last thing run p did is e.
JustDid(p, e) == Len(io[p]) > 0 /\ Last(io[p]) = e

\* This step is run p doing e.
Does(p, e) == Len(io'[p]) = Len(io[p]) + 1 /\ Last(io'[p]) = e

\* The digest stored for content data: upper-case hex.
Fingerprint(data) == upper(sha256_hexdigest(data))

RowsWithFingerprint(tbl, data) ==
    {i \in 1..Len(tbl) : tbl[i].sha256 = Fingerprint(data)}

FilesHolding(fs, data) == {f \in fs : f.data = data}

\* This step ends run p's pass through the find/save/insert part with a
\* return to main.
ResolveReturns(p) ==
    /\ pc[p] \in {"find", "save", "insert"}
    /\ pc'[p] = "get_info"

\* A date as one number that grows with the calendar.
DayNumber(d) == d[1] * 10000 + d[2] * 100 + d[3]

(***************************************************************************)
(* C1.  In one process, whatever the contents, titles and URLs resolved    *)
(* and wherever saves and inserts fail, the table never holds two rows     *)
(* with the same content fingerprint.                                      *)
(***************************************************************************)
C1_OneRecordPerFingerprint ==
    \A i, j \in 1..Len(image_data) :
        image_data[i].sha256 = image_data[j].sha256 => i = j

\* Two contents are cached, an earlier insert failure left an orphan file,
\* and a content was just found again.
C1_Witness ==
    /\ Len(image_data) = 2
    /\ \E f \in files : \A i \in 1..Len(image_data) :
           image_data[i].file_path # f.path
    /\ \E p \in Procs : pc[p] = "get_info" /\ JustDid(p, "find")

(***************************************************************************)
(* C2 as stated.  Resolving content B twice in a row gives the second time *)
(* the id the first call gave, and afterwards exactly one file holds B.    *)
(* It is read here in the claim's favour, for two calls that both return   *)
(* an id, so that no failure inside either call is what breaks it.         *)
(***************************************************************************)
C2_SameIdAndOneFile ==
    [][\A p \in Procs :
          ( /\ ResolveReturns(p)
            /\ last_resolve.called
            /\ last_resolve.data = apod_image_data[p]
            /\ last_resolve.id # 0
            /\ apod_id'[p] # 0 )
          => /\ apod_id'[p] = last_resolve.id
             /\ Cardinality(FilesHolding(files', apod_image_data[p])) = 1
      ]_vars

(***************************************************************************)
(* C2 amended.  When a resolve of content B has returned a non-zero id,    *)
(* the next resolve of B (same or different title and URL) returns that    *)
(* id after the lookup alone: it writes no file and inserts no row, and    *)
(* exactly one row carries B's fingerprint.                                *)
(***************************************************************************)
C2_SameIdNoSecondWrite ==
    [][\A p \in Procs :
          ( /\ ResolveReturns(p)
            /\ last_resolve.called
            /\ last_resolve.data = apod_image_data[p]
            /\ last_resolve.id # 0 )
          => /\ apod_id'[p] = last_resolve.id
             /\ Does(p, "find")
             /\ files' = files
             /\ image_data' = image_data
             /\ Cardinality(RowsWithFingerprint(image_data',
                                                apod_image_data[p])) = 1
      ]_vars

\* The same content was resolved twice in a row, the second time under a
\* title and URL that give another path than the row's.
C2_Witness ==
    \E p \in Procs :
        /\ pc[p] = "get_info"
        /\ JustDid(p, "find")
        /\ apod_id[p] # 0
        /\ last_resolve.id = apod_id[p]
        /\ \E i \in 1..Len(image_data) :
              /\ image_data[i].id = apod_id[p]
              /\ image_data[i].file_path #
                     determine_apod_file_path(apod_title[p], apod_url[p])
              /\ image_data[i].title # apod_title[p]

(***************************************************************************)
(* C3.  When the content's fingerprint already has a row, the lookup step  *)
(* ends the resolve: it returns that row's id, raises nothing, and leaves  *)
(* the rows and the files of the cache directory as they were.             *)
(***************************************************************************)
C3_CacheHitNoSideEffects ==
    [][\A p \in Procs :
          ( /\ pc[p] = "find"
            /\ pc'[p] # "find"
            /\ RowsWithFingerprint(image_data, apod_image_data[p]) # {} )
          => /\ pc'[p] = "get_info"
             /\ err'[p] = "none"
             /\ \E i \in RowsWithFingerprint(image_data, apod_image_data[p]) :
                    apod_id'[p] = image_data[i].id
             /\ apod_id'[p] # 0
             /\ image_data' = image_data
             /\ files' = files
      ]_vars

\* A cached content was just found again while the cache holds two rows.
C3_Witness ==
    \E p \in Procs :
        /\ pc[p] = "get_info"
        /\ JustDid(p, "find")
        /\ apod_id[p] = 2
        /\ RowsWithFingerprint(image_data, apod_image_data[p]) # {}

(***************************************************************************)
(* C4.  When the write of the image file fails, the resolve returns 0 to   *)
(* main with the table as it was before the call; and every row's file has *)
(* been written.                                                           *)
(***************************************************************************)
C4_WriteFailureInsertsNothing ==
    /\ [](\A i \in 1..Len(image_data) :
              FileExists(files, image_data[i].file_path))
    /\ [][\A p \in Procs :
             Does(p, "write_failed")
             => /\ pc'[p] = "get_info"
                /\ apod_id'[p] = 0
                /\ image_data' = image_data
                /\ RowsWithFingerprint(image_data', apod_image_data[p]) = {}
         ]_vars

\* A write has just failed in a cache that already holds a row.
C4_Witness ==
    \E p \in Procs :
        /\ JustDid(p, "write_failed")
        /\ pc[p] = "get_info"
        /\ apod_id[p] = 0
        /\ Len(image_data) = 1

(***************************************************************************)
(* C5.  A failed insert returns 0 and leaves the table holding exactly the *)
(* rows it held, so the content it followed the write of still has no row  *)
(* (its file may stay behind as an orphan).                                *)
(***************************************************************************)
C5_InsertAllOrNothing ==
    [][\A p \in Procs :
          Does(p, "insert_failed")
          => /\ apod_id'[p] = 0
             /\ image_data' = image_data
             /\ RowsWithFingerprint(image_data', apod_image_data[p]) = {}
      ]_vars

\* An insert has just failed after its file was written: the file is an
\* orphan, referenced by no row.
C5_Witness ==
    \E p \in Procs :
        /\ JustDid(p, "insert_failed")
        /\ apod_id[p] = 0
        /\ [path |-> apod_path[p], data |-> apod_image_data[p]] \in files
        /\ \A i \in 1..Len(image_data) :
               image_data[i].file_path # apod_path[p]

(***************************************************************************)
(* C6.  Row ids are at least 1, pairwise different and strictly increasing *)
(* in insertion order; a successful insert returns an id greater than      *)
(* every id given before and removes none; no row has id 0.                *)
(***************************************************************************)
C6_IdsIncreaseFromOne ==
    /\ [](/\ \A i \in 1..Len(image_data) : image_data[i].id >= 1
          /\ \A i, j \in 1..Len(image_data) :
                 i < j => image_data[i].id < image_data[j].id)
    /\ [][\A p \in Procs :
             Does(p, "insert_ok")
             => /\ apod_id'[p] >= 1
                /\ \A x \in Ids(image_data) : apod_id'[p] > x
                /\ apod_id'[p] \in Ids(image_data')
                /\ Ids(image_data) \subseteq Ids(image_data')
         ]_vars

\* The second row has just been inserted, after an insert that failed.
C6_Witness ==
    /\ Len(image_data) = 2
    /\ \E p \in Procs : JustDid(p, "insert_ok") /\ apod_id[p] = 2
    /\ \E f \in files : \A i \in 1..Len(image_data) :
           image_data[i].file_path # f.path

(***************************************************************************)
(* C7.  Every row's file_path lies inside the cache directory and names a  *)
(* file that exists; within a run an insert comes only right after a       *)
(* successful write.                                                       *)
(***************************************************************************)
C7_RecordsHaveFilesInCacheDir ==
    /\ \A i \in 1..Len(image_data) :
           /\ InsideDir(image_data[i].file_path, image_cache_dir)
           /\ FileExists(files, image_data[i].file_path)
    /\ \A p \in Procs : \A k \in 1..Len(io[p]) :
           io[p][k] \in {"insert_ok", "insert_failed"}
           => k > 1 /\ io[p][k - 1] = "write_ok"

\* Two rows share one file path: the file was written twice and exists.
C7_Witness ==
    /\ Len(image_data) = 2
    /\ image_data[1].file_path = image_data[2].file_path
    /\ image_data[1].title # image_data[2].title

(***************************************************************************)
(* C8.  A well-formed date argument is rejected exactly when it is earlier *)
(* than 1999-07-14 or later than today; a date that is accepted is the     *)
(* date of the run; with no argument the date of the run is today.         *)
(***************************************************************************)
C8_DateBounds ==
    \A p \in Procs :
        pc[p] \in {"init", "aborted"} =>
            IF argv[p] = <<>>
            THEN pc[p] = "init" /\ apod_date[p] = today[p]
            ELSE IsIsoDate(argv[p][1]) =>
                   /\ pc[p] = "aborted"
                        <=> \/ DayNumber(argv[p][1]) < 19990714
                            \/ DayNumber(argv[p][1]) > DayNumber(today[p])
                   /\ pc[p] = "init" => apod_date[p] = argv[p][1]

\* The first APOD date is asked for on that very day, and accepted.
C8_Witness ==
    \E p \in Procs :
        /\ pc[p] = "init"
        /\ argv[p] = << <<1999, 7, 14>> >>
        /\ today[p] = <<1999, 7, 14>>
        /\ apod_date[p] = <<1999, 7, 14>>

(***************************************************************************)
(* C9.  A run that ends on an invalid date (malformed or out of range) has *)
(* done nothing before: no cache initialisation, metadata fetch, download, *)
(* lookup, file write, insert or set-background call.                      *)
(***************************************************************************)
C9_InvalidDateBeforeAnyIO ==
    \A p \in Procs :
        err[p] \in InvalidDate => pc[p] = "aborted" /\ io[p] = <<>>

\* The very first run is refused for a date in the future: no cache yet.
C9_Witness ==
    \E p \in Procs :
        /\ pc[p] = "aborted"
        /\ err[p] = "DateInFuture"
        /\ ~dir_exists
        /\ ~tbl_exists

(***************************************************************************)
(* C10 as stated.  get_apod_info is called only with a non-zero id that    *)
(* has a row, so its lookup never comes back empty.                        *)
(***************************************************************************)
C10_GetOnlyWithResolvedId ==
    \A p \in Procs :
        /\ Did(p, "get") =>
              /\ apod_id[p] # 0
              /\ RowsWithId(image_data, apod_id[p]) # <<>>
        /\ err[p] # "TypeError"

(***************************************************************************)
(* C11.  A run whose metadata fetch reports no data, or whose download     *)
(* raises, fails, and none of its steps changes the cache: it writes no    *)
(* file and inserts no row.                                                *)
(***************************************************************************)
\* Run p got no data for its date.
NoData(p) ==
    /\ Did(p, "fetch")
    /\ ~Did(p, "download")
    /\ pc[p] # "download"

NoDataAfter(p) ==
    /\ "fetch" \in Range(io'[p])
    /\ "download" \notin Range(io'[p])
    /\ pc'[p] # "download"

C11_NoDataOrDownloadFailureLeavesCache ==
    /\ [](\A p \in Procs :
             (NoData(p) \/ err[p] = "RequestException")
             => /\ pc[p] \in {"get_info", "crashed"}
                /\ pc[p] = "get_info"
                     => apod_id[p] = 0 /\ RowsWithId(image_data, 0) = <<>>
                /\ Range(io[p]) \cap {"find", "write_ok", "write_failed",
                      "insert_ok", "insert_failed", "set_background"} = {})
    /\ [][\A p \in Procs :
             (NoDataAfter(p) \/ err'[p] = "RequestException")
             => image_data' = image_data /\ files' = files
         ]_vars

\* Both failures have been met with two rows in the cache: a run that got
\* no data has crashed in get_apod_info.
C11_Witness ==
    \E p \in Procs :
        /\ NoData(p)
        /\ pc[p] = "crashed"
        /\ err[p] = "TypeError"
        /\ Len(image_data) = 2
        /\ files # {}

(***************************************************************************)
(* C12.  get_apod_info(id) returns the title, explanation and file_path    *)
(* stored in the row with that id when there is one; for every id without  *)
(* a row, 0 included, it raises and returns nothing.                       *)
(***************************************************************************)
C12_GetReturnsRowOrFails ==
    \A p \in Procs :
        (JustDid(p, "get") \/ JustDid(p, "call_get")) =>
            LET hits == {i \in 1..Len(image_data) :
                            image_data[i].id = apod_id[p]}
            IN  IF tbl_exists /\ hits # {}
                THEN /\ pc[p] \in {"set_bg", "returned"}
                     /\ err[p] = "none"
                     /\ \E i \in hits :
                          apod_info[p] =
                            << [title       |-> image_data[i].title,
                                explanation |-> image_data[i].explanation,
                                file_path   |-> image_data[i].file_path] >>
                ELSE /\ pc[p] = "crashed"
                     /\ err[p] \in {"TypeError", "OperationalError"}
                     /\ tbl_exists => err[p] = "TypeError"
                     /\ apod_info[p] = <<>>

\* get_apod_info was called for an id no row has, other than 0, on a table
\* of two rows.
C12_Witness ==
    \E p \in Procs :
        /\ JustDid(p, "call_get")
        /\ apod_id[p] = 3
        /\ Len(image_data) = 2
        /\ pc[p] = "crashed"
        /\ err[p] = "TypeError"

(***************************************************************************)
(* C13.  init_apod_cache, called in any state, leaves the cache directory  *)
(* and the table in existence and every row and every file as it was; on   *)
(* a cache that is already initialised, as after a first call, it changes  *)
(* nothing at all.                                                         *)
(***************************************************************************)
\* This step is run p calling init_apod_cache, from main or on its own.
InitCalled(p) ==
    \/ Does(p, "init")
    \/ pc[p] = "start" /\ io'[p] = <<"call_init">>

C13_InitIdempotent ==
    /\ [](\A p \in Procs :
             (JustDid(p, "init") \/ JustDid(p, "call_init"))
             => dir_exists /\ tbl_exists)
    /\ [][\A p \in Procs :
             InitCalled(p)
             => /\ dir_exists' /\ tbl_exists'
                /\ image_data' = image_data
                /\ files' = files
                /\ (dir_exists /\ tbl_exists) => shared' = shared
         ]_vars

\* init_apod_cache has been called on its own on a cache of two rows.
C13_Witness ==
    \E p \in Procs :
        /\ JustDid(p, "call_init")
        /\ pc[p] = "returned"
        /\ Len(image_data) = 2
        /\ files # {}

(***************************************************************************)
(* C14.  With two runs at once nothing stands between a miss and the       *)
(* insert: an insert that succeeds adds its row whether or not the table   *)
(* already holds the fingerprint, so when both runs miss on the same new   *)
(* content both write and both insert, and the table ends with two rows    *)
(* of one fingerprint (the state of C14_Witness).                          *)
(***************************************************************************)
C14_InsertAddsRowUnchecked ==
    [][\A p \in Procs :
          Does(p, "insert_ok")
          => /\ Len(image_data') = Len(image_data) + 1
             /\ SubSeq(image_data', 1, Len(image_data)) = image_data
             /\ Last(image_data').sha256 = Fingerprint(apod_image_data[p])
             /\ Cardinality(RowsWithFingerprint(image_data',
                                                apod_image_data[p]))
                  = Cardinality(RowsWithFingerprint(image_data,
                                                    apod_image_data[p])) + 1
      ]_vars

\* Both runs missed on the same content, both wrote and both inserted: two
\* rows with different ids carry one fingerprint.
C14_Witness ==
    /\ \A p \in Procs :
          /\ Did(p, "find") /\ Did(p, "write_ok") /\ JustDid(p, "insert_ok")
          /\ apod_id[p] # 0
    /\ apod_image_data[1] = apod_image_data[2]
    /\ apod_id[1] # apod_id[2]
    /\ Len(image_data) = 2
    /\ image_data[1].sha256 = image_data[2].sha256
    /\ image_data[1].id # image_data[2].id

(***************************************************************************)
(* C15.  The table only grows at its end: no step of init_apod_cache, a    *)
(* run of main, get_apod_info or get_all_apod_titles removes a row or      *)
(* changes a field of one, and a step adds at most one row, whose          *)
(* fingerprint no row had before.                                          *)
(***************************************************************************)
C15_AppendOnly ==
    [][/\ IsPrefix(image_data, image_data')
       /\ Len(image_data') <= Len(image_data) + 1
       /\ Len(image_data') = Len(image_data) + 1
            => \A i \in 1..Len(image_data) :
                   image_data[i].sha256 # Last(image_data').sha256
      ]_vars

\* get_all_apod_titles has returned the titles of two rows, in their order.
C15_Witness ==
    \E p \in Procs :
        /\ JustDid(p, "call_titles")
        /\ pc[p] = "returned"
        /\ Len(image_data) = 2
        /\ apod_info[p] = <<image_data[1].title, image_data[2].title>>

(***************************************************************************)
(* C16.  After a miss, a save that succeeds writes exactly one file, at    *)
(* image_cache_dir/<file name of title and URL>, holding the bytes, and    *)
(* an insert that succeeds adds exactly one row, with the title, the       *)
(* explanation, that path and the upper-case hex digest of the bytes; on   *)
(* an empty table the row has id 1.                                        *)
(***************************************************************************)
C16_FirstWrite ==
    [][\A p \in Procs :
          LET path == determine_apod_file_path(apod_title[p], apod_url[p])
              file == [path |-> path, data |-> apod_image_data[p]]
          IN  /\ Does(p, "write_ok")
                   => /\ RowsWithFingerprint(image_data,
                                             apod_image_data[p]) = {}
                      /\ file \in files'
                      /\ \A f \in files' : f.path = path => f = file
                      /\ {f \in files' : f.path # path}
                           = {f \in files : f.path # path}
                      /\ image_data' = image_data
              /\ Does(p, "insert_ok")
                   => /\ file \in files
                      /\ files' = files
                      /\ image_data' = Append(image_data,
                            [id          |-> apod_id'[p],
                             title       |-> apod_title[p],
                             explanation |-> apod_explanation[p],
                             file_path   |-> path,
                             sha256      |-> Fingerprint(apod_image_data[p])])
                      /\ Range(Last(image_data').sha256)
                            \cap Range(LowerLetters) = {}
                      /\ apod_image_data[p] = <<65, 66, 67>>
                           => Last(image_data').sha256 = <<"B", "5", "D", "4">>
                      /\ image_data = <<>> => apod_id'[p] = 1
      ]_vars

\* The first write into a fresh cache: bytes "ABC" under title "A b" and a
\* URL ending in ".j" give one file and one row, with id 1.
C16_Witness ==
    \E p \in Procs :
        /\ JustDid(p, "insert_ok")
        /\ apod_id[p] = 1
        /\ apod_image_data[p] = <<65, 66, 67>>
        /\ apod_title[p] = <<"A", " ", "b">>
        /\ files = {[path |-> <<"/", "s", "/", "I", "/", "A", "_", "b", ".", "j">>,
                     data |-> <<65, 66, 67>>]}
        /\ image_data =
             << [id          |-> 1,
                 title       |-> <<"A", " ", "b">>,
                 explanation |-> <<"e">>,
                 file_path   |-> <<"/", "s", "/", "I", "/", "A", "_", "b", ".", "j">>,
                 sha256      |-> <<"B", "5", "D", "4">>] >>

(***************************************************************************)
(* The file name the specification describes: the title trimmed of         *)
(* leading and trailing whitespace, each remaining character of ws turned  *)
(* into an underscore, everything but ASCII letters, digits and            *)
(* underscores dropped, then ".", then what follows the last "." of the    *)
(* URL.                                                                    *)
(***************************************************************************)
RECURSIVE TrimLeft(_)
TrimLeft(t) ==
    IF t # <<>> /\ Head(t) \in Whitespace THEN TrimLeft(Tail(t)) ELSE t

RECURSIVE TrimRight(_)
TrimRight(t) ==
    IF t # <<>> /\ Last(t) \in Whitespace
    THEN TrimRight(SubSeq(t, 1, Len(t) - 1))
    ELSE t

RECURSIVE Sanitized(_, _)
Sanitized(t, ws) ==
    IF t = <<>> THEN <<>>
    ELSE LET c == Head(t)
         IN  (IF c \in ws THEN <<"_">>
              ELSE IF c \in WordChars THEN <<c>>
              ELSE <<>>) \o Sanitized(Tail(t), ws)

RECURSIVE Extension(_)
Extension(u) ==
    IF u = <<>> \/ Last(u) = "." THEN <<>>
    ELSE Extension(SubSeq(u, 1, Len(u) - 1)) \o <<Last(u)>>

DerivedFileName(t, u, ws) ==
    Sanitized(TrimRight(TrimLeft(t)), ws) \o <<".">> \o Extension(u)

PathReturned(p) == pc[p] = "returned" /\ apod_path[p] # NoText

\* C17 as stated: every internal whitespace character of the title becomes
\* an underscore.
C17_WhitespaceToUnderscore ==
    \A p \in Procs :
        PathReturned(p)
            => apod_path[p] = image_cache_dir \o <<"/">>
                   \o DerivedFileName(apod_title[p], apod_url[p], Whitespace)

\* C17, amended: the file name is the trimmed title with each internal space
\* turned into an underscore and every other character that is not an ASCII
\* letter, digit or underscore (tabs and newlines too) removed, then ".",
\* then what follows the last "." of the URL; a title that sanitizes to
\* nothing gives "." and the extension.
C17_SpaceToUnderscore ==
    \A p \in Procs :
        PathReturned(p)
            => /\ apod_path[p] = image_cache_dir \o <<"/">>
                     \o DerivedFileName(apod_title[p], apod_url[p], {" "})
               /\ Sanitized(TrimRight(TrimLeft(apod_title[p])), {" "}) = <<>>
                    => apod_path[p] = image_cache_dir \o <<"/", ".">>
                                         \o Extension(apod_url[p])

\* A title with an internal space followed by a character that is dropped.
C17_Witness ==
    \E p \in Procs :
        /\ PathReturned(p)
        /\ apod_title[p] = <<"A", " ", "!">>
        /\ apod_url[p] = <<"x", ".", "y", "/", "b", ".", "p">>
        /\ apod_path[p] = <<"/", "s", "/", "I", "/", "A", "_", ".", "p">>

(***************************************************************************)
(* C18.  When a run brings content the table does not hold under a title   *)
(* and URL whose file path a row already has, the lookup misses, the save  *)
(* replaces the file at that path by the new bytes, and the insert adds a  *)
(* row with a new id and the same file_path; afterwards the one file at    *)
(* that path holds the bytes of this later run.                            *)
(***************************************************************************)
RowsWithPath(tbl, path) == {i \in 1..Len(tbl) : tbl[i].file_path = path}

Collides(p) ==
    LET path == determine_apod_file_path(apod_title[p], apod_url[p])
    IN  \E i \in RowsWithPath(image_data, path) :
            image_data[i].sha256 # Fingerprint(apod_image_data[p])

C18_FileNameCollision ==
    [][\A p \in Procs :
          LET path == determine_apod_file_path(apod_title[p], apod_url[p])
              file == [path |-> path, data |-> apod_image_data[p]]
          IN  /\ Does(p, "find") /\ Collides(p)
                   /\ RowsWithFingerprint(image_data, apod_image_data[p]) = {}
                   => pc'[p] = "save"
              /\ Does(p, "write_ok") /\ Collides(p)
                   => {f \in files' : f.path = path} = {file}
              /\ Does(p, "insert_ok") /\ Collides(p)
                   => /\ apod_id'[p] # 0
                      /\ apod_id'[p] \notin Ids(image_data)
                      /\ Len(image_data') = Len(image_data) + 1
                      /\ Last(image_data').id = apod_id'[p]
                      /\ Last(image_data').file_path = path
                      /\ RowsWithPath(image_data', path)
                           = RowsWithPath(image_data, path)
                                \cup {Len(image_data')}
                      /\ {f \in files' : f.path = path} = {file}
                      /\ \A i \in RowsWithPath(image_data, path) :
                            image_data'[i] = image_data[i]
      ]_vars

\* Bytes "ABC" were stored as row 1; a later run with the empty content and
\* a title that gives the same file name has just added row 2, and the one
\* file holds the empty content.
C18_Witness ==
    \E p \in Procs :
        /\ JustDid(p, "insert_ok")
        /\ apod_id[p] = 2
        /\ apod_image_data[p] = <<>>
        /\ Len(image_data) = 2
        /\ image_data[1].id = 1
        /\ image_data[2].id = 2
        /\ image_data[1].sha256 = Fingerprint(<<65, 66, 67>>)
        /\ image_data[2].sha256 = Fingerprint(<<>>)
        /\ image_data[1].file_path = image_data[2].file_path
        /\ files = {[path |-> image_data[2].file_path, data |-> <<>>]}

(***************************************************************************)
(* C19.  Once a function that opened a connection to the database has      *)
(* returned or raised, that connection is closed: between the steps of a   *)
(* run no connection is open, in particular none while the APOD            *)
(* information is fetched or the image is downloaded.                      *)
(***************************************************************************)
C19_ConnectionsReleased ==
    \A p \in Procs :
        /\ db_cxn[p] = {}
        /\ pc[p] \in {"fetch", "download"} => db_cxn[p] = {}

(***************************************************************************)
(* C20.  In one process, when add_apod_to_cache returns an id other than   *)
(* 0, the table at that moment has exactly one row with that id, and the   *)
(* digest of that row is the upper-case digest of the bytes of this call.  *)
(***************************************************************************)
C20_ReturnedIdNamesThisContent ==
    [][\A p \in Procs :
          ResolveReturns(p) /\ apod_id'[p] # 0
              => /\ last_resolve' = Resolved(p, apod_id'[p])
                 /\ \E i \in 1..Len(image_data') :
                        /\ image_data'[i].id = apod_id'[p]
                        /\ image_data'[i].sha256
                             = Fingerprint(apod_image_data[p])
                 /\ \A i \in 1..Len(image_data') :
                        image_data'[i].id = apod_id'[p]
                            => image_data'[i].sha256
                                 = Fingerprint(apod_image_data[p])
      ]_vars

\* A run has just found its bytes in the second of two rows: the lookup
\* returned id 2, not the id of the other content.
C20_Witness ==
    \E p \in Procs :
        /\ pc[p] = "get_info"
        /\ JustDid(p, "find")
        /\ apod_id[p] = 2
        /\ Len(image_data) >= 2
        /\ image_data[2].id = 2
        /\ image_data[2].sha256 = Fingerprint(apod_image_data[p])
        /\ image_data[1].sha256 # Fingerprint(apod_image_data[p])

====
